---- MODULE Spec2Model ----
(***************************************************************************)
(* Layout and pagination engine of simple-html-to-pdf-nodejs.              *)
(*                                                                         *)
(* The engine is insertHtmlToPdf (part_001, 771-1040): one recursive,      *)
(* synchronous walk of the DOM (processNode) over the closure state        *)
(* currentX, currentY, inlineXOffset, inlineHeight, pendingInlineElements  *)
(* and the pdf's page list.  The recursion is modelled with an explicit    *)
(* stack of block activations; each step of the model is one DOM node met  *)
(* in document order (a text node, an image, an element that is not shown, *)
(* the entry of a block element, the end of a block's child loop) or the   *)
(* final flush.                                                            *)
(*                                                                         *)
(* Lengths are integers.  The document unit is the point, so that          *)
(* pdf.internal.scaleFactor is 1.  A CSS value is a record [t, n]: t =     *)
(* "px" for a numeric length of n, t = "nan" for a missing or non-numeric  *)
(* value (parseFloat gives NaN).  A text is the sequence of the measured   *)
(* widths of its words; a space measures SpaceWidth.                       *)
(***************************************************************************)
EXTENDS Integers, Sequences, FiniteSets, TLC

\* ---------------------------------------------------------------- bounds
MaxNodes == 4
MaxDepth == 3
SpaceWidth == 1
MaxStrLen == 7
MaxWords == 4
MaxHexLen == 6

\* ------------------------------------------------------ program constants
PagePadding == 20
PageHeight == 70
PageWidth == 60
DefaultLineHeightTenths == 12
MinFontSize == 8
FallbackFontSize == 12
EstimatedLineHeight == 20
EstimatedImgHeight == 100
ImgPlaceholder == 10

ContentWidth == PageWidth - PagePadding * 2

PageLimit == PageHeight - PagePadding

\* ------------------------------------------------------------- utilities
Max(a, b) == IF a >= b THEN a ELSE b

RECURSIVE SumSeq(_)
SumSeq(s) == IF s = <<>> THEN 0 ELSE Head(s) + SumSeq(Tail(s))

RECURSIVE MaxSeq(_)
MaxSeq(s) == IF s = <<>> THEN 0 ELSE Max(Head(s), MaxSeq(Tail(s)))

RECURSIVE Flatten(_)
Flatten(ss) == IF ss = <<>> THEN <<>> ELSE Head(ss) \o Flatten(Tail(ss))

SeqsUpTo(S, n) == UNION {[1..k -> S] : k \in 0..n}

\* ------------------------------------------------------------ CSS values
Px(n) == [t |-> "px", n |-> n]

Blank == [t |-> "nan", n |-> 0]

\* parseFloat(v) || 0, parseInt(v) || 0: NaN and 0 are both falsy
NumOrZero(v) == IF v.t = "px" THEN v.n ELSE 0

tagNameToFontSize(tag) ==
  CASE tag = "H1" -> 20
    [] tag = "H2" -> 18
    [] tag = "H3" -> 16
    [] tag = "H4" -> 14
    [] tag = "H5" -> 12
    [] tag = "H6" -> 10
    [] tag = "P" -> 10
    [] OTHER -> 0

\* ----------------------------------------------------------- checkForNewPage
\* m is the closure state, with the pageHeight and pagePadding it closes
\* over; ret is the returned boolean; first a variant that also breaks when
\* the needed height ends exactly on the limit
checkForNewPageStrict(m, neededHeight) ==
  IF m.currentY + neededHeight >= m.pageHeight - m.pagePadding
  THEN [m EXCEPT !.pages = @ + 1, !.currentY = m.pagePadding, !.ret = TRUE,
                 !.breakPending = Len(m.pendingInlineElements)]
  ELSE [m EXCEPT !.ret = FALSE]

checkForNewPage(m, neededHeight) ==
  IF m.currentY + neededHeight > m.pageHeight - m.pagePadding
  THEN [m EXCEPT !.pages = @ + 1, !.currentY = m.pagePadding, !.ret = TRUE,
                 !.breakPending = Len(m.pendingInlineElements)]
  ELSE [m EXCEPT !.ret = FALSE]

\* ------------------------------------------------------------ text metrics
\* pdf.getTextWidth of the words joined by single spaces
getTextWidth(words) ==
  IF words = <<>> THEN 0 ELSE SumSeq(words) + (Len(words) - 1) * SpaceWidth

FontSizeOf(style, tagName) ==
  LET a == NumOrZero(style.fontSize)
      b == tagNameToFontSize(tagName)
      c == tagNameToFontSize("P")
      fs == IF a # 0 THEN a ELSE IF b # 0 THEN b ELSE IF c # 0 THEN c
            ELSE FallbackFontSize
  IN Max(fs, MinFontSize)

\* parseFloat(style.lineHeight) || 1.2, in tenths
LineHeightTenths(style) ==
  IF NumOrZero(style.lineHeight) # 0 THEN NumOrZero(style.lineHeight) * 10
  ELSE DefaultLineHeightTenths

getTextDimensions(text, style, tagName) ==
  [width |-> getTextWidth(text),
   height |-> (FontSizeOf(style, tagName) * LineHeightTenths(style)) \div 10]

\* ------------------------------------------------- renderTextNode: wrapping
\* the forEach over the words: st = [lines, currentLine, currentWidth]; first
\* a variant that forgets the line it closes
WrapStepDrop(st, word, maxWidth) ==
  LET wordWidth == word + SpaceWidth
  IN IF st.currentWidth + wordWidth <= maxWidth
     THEN [st EXCEPT !.currentLine = Append(@, word),
                     !.currentWidth = @ + wordWidth]
     ELSE [lines |-> st.lines,
           currentLine |-> <<word>>, currentWidth |-> wordWidth]

WrapStep(st, word, maxWidth) ==
  LET wordWidth == word + SpaceWidth
  IN IF st.currentWidth + wordWidth <= maxWidth
     THEN [st EXCEPT !.currentLine = Append(@, word),
                     !.currentWidth = @ + wordWidth]
     ELSE [lines |-> IF st.currentLine # <<>>
                     THEN Append(st.lines, st.currentLine) ELSE st.lines,
           currentLine |-> <<word>>, currentWidth |-> wordWidth]

RECURSIVE WrapLoop(_, _, _)
WrapLoop(st, words, maxWidth) ==
  IF words = <<>> THEN st
  ELSE WrapLoop(WrapStep(st, Head(words), maxWidth), Tail(words), maxWidth)

WrapLines(words, maxWidth) ==
  LET st == WrapLoop([lines |-> <<>>, currentLine |-> <<>>, currentWidth |-> 0],
                     words, maxWidth)
  IN IF st.currentLine # <<>> THEN Append(st.lines, st.currentLine) ELSE st.lines

\* ------------------------------------------------------- renderTextNode: draw
\* the pdf.text calls of one run; every instruction carries the page it is
\* drawn on and the index of its run in the flushed line; first a variant
\* that draws every line at y
renderTextNodeSameY(text, x, y, style, maxWidth, tagName, run, page) ==
  LET lines == WrapLines(text, maxWidth)
      lineHeight == getTextDimensions(text, style, tagName).height
      xPos(lineWidth) ==
        CASE style.textAlign = "center" -> x + (maxWidth - lineWidth) \div 2
          [] style.textAlign = "right" -> x + maxWidth - lineWidth
          [] OTHER -> x
  IN [i \in 1..Len(lines) |->
        [kind |-> "text", page |-> page, run |-> run,
         x |-> xPos(getTextWidth(lines[i])), y |-> y,
         w |-> getTextWidth(lines[i]), h |-> lineHeight]]

renderTextNode(text, x, y, style, maxWidth, tagName, run, page) ==
  LET lines == WrapLines(text, maxWidth)
      lineHeight == getTextDimensions(text, style, tagName).height
      xPos(lineWidth) ==
        CASE style.textAlign = "center" -> x + (maxWidth - lineWidth) \div 2
          [] style.textAlign = "right" -> x + maxWidth - lineWidth
          [] OTHER -> x
  IN [i \in 1..Len(lines) |->
        [kind |-> "text", page |-> page, run |-> run,
         x |-> xPos(getTextWidth(lines[i])), y |-> y + (i - 1) * lineHeight,
         w |-> getTextWidth(lines[i]), h |-> lineHeight]]

\* --------------------------------------------------------- getElementDimensions
IsBlockDisplay(display) == display \in {"block", "flex", "grid", "table"}

getElementDimensions(style, contentWidth) ==
  LET isBlock == IsBlockDisplay(style.display)
  IN [isBlock |-> isBlock,
      padding |-> [top |-> NumOrZero(style.paddingTop),
                   right |-> NumOrZero(style.paddingRight),
                   bottom |-> NumOrZero(style.paddingBottom),
                   left |-> NumOrZero(style.paddingLeft)],
      margin |-> [top |-> NumOrZero(style.marginTop),
                  right |-> NumOrZero(style.marginRight),
                  bottom |-> NumOrZero(style.marginBottom),
                  left |-> NumOrZero(style.marginLeft)],
      border |-> [top |-> NumOrZero(style.borderTopWidth),
                  right |-> NumOrZero(style.borderRightWidth),
                  bottom |-> NumOrZero(style.borderBottomWidth),
                  left |-> NumOrZero(style.borderLeftWidth)],
      innerWidth |-> IF isBlock
                     THEN contentWidth - NumOrZero(style.marginLeft)
                                       - NumOrZero(style.marginRight)
                     ELSE 0]

\* ------------------------------------------------------ renderElementBackground
\* the fill and the four border lines (top, right, bottom, left); a border
\* of width 0 draws nothing; halves of border widths are integer halves
renderElementBackground(x, y, width, height, style, dimensions, page) ==
  LET b == dimensions.border
      Line(y1, y2) == [kind |-> "line", page |-> page, run |-> 0,
                       x |-> x, y |-> y1, w |-> width, h |-> y2 - y1]
      bg == IF style.backgroundColor
            THEN <<[kind |-> "rect", page |-> page, run |-> 0,
                    x |-> x + b.left \div 2, y |-> y + b.top \div 2,
                    w |-> width - (b.left + b.right) \div 2,
                    h |-> height - (b.top + b.bottom) \div 2]>>
            ELSE <<>>
      top == IF b.top > 0
             THEN <<Line(y + b.top \div 2, y + b.top \div 2)>> ELSE <<>>
      right == IF b.right > 0 THEN <<Line(y, y + height)>> ELSE <<>>
      bottom == IF b.bottom > 0
                THEN <<Line(y + height - b.bottom \div 2,
                            y + height - b.bottom \div 2)>> ELSE <<>>
      left == IF b.left > 0 THEN <<Line(y, y + height)>> ELSE <<>>
  IN bg \o top \o right \o bottom \o left

\* -------------------------------------------------------- handleImageElement
\* img: complete, naturalWidth, naturalHeight, the width and height
\* attributes, and whether pdf.addImage can decode its source (it throws
\* when it cannot); the result is the returned y and the image drawn
handleImageElement(img, x, y, maxWidth, page) ==
  IF ~img.complete \/ img.naturalWidth = 0 THEN [y |-> y, out |-> <<>>]
  ELSE LET imgWidth == IF NumOrZero(img.width) # 0 THEN NumOrZero(img.width)
                       ELSE img.naturalWidth
           imgHeight == IF NumOrZero(img.height) # 0 THEN NumOrZero(img.height)
                        ELSE img.naturalHeight
           scaled == imgWidth > maxWidth
           finalWidth == IF scaled THEN (imgWidth * maxWidth) \div imgWidth
                         ELSE imgWidth
           finalHeight == IF scaled THEN (imgHeight * maxWidth) \div imgWidth
                          ELSE imgHeight
       IN IF img.decodable
          THEN [y |-> y + finalHeight,
                out |-> <<[kind |-> "image", page |-> page, run |-> 0,
                           x |-> x, y |-> y, w |-> finalWidth,
                           h |-> finalHeight]>>]
          ELSE [y |-> y, out |-> <<>>]

\* ---------------------------------------------------------- flushInlineElements
NoFlush == [n |-> 0, x |-> 0, y |-> 0, h |-> 0, page |-> 0, widest |-> 0,
            aligns |-> <<>>, after |-> 0, fontSizes |-> <<>>, width |-> 0]

RunHeight(el) == getTextDimensions(el.text, el.style, el.tagName).height

PendingMaxHeight(pending) ==
  MaxSeq([i \in 1..Len(pending) |-> RunHeight(pending[i])])

\* lines 802-835; first a variant that draws every run at the cursor y
flushInlineElementsTop(m) ==
  LET pending == m.pendingInlineElements
      maxHeight == PendingMaxHeight(pending)
      draws == Flatten([i \in 1..Len(pending) |->
                 renderTextNode(pending[i].text, pending[i].x,
                                m.currentY,
                                pending[i].style, ContentWidth,
                                pending[i].tagName, i, m.pages)])
  IN IF pending = <<>> THEN m
     ELSE [m EXCEPT !.out = @ \o draws,
                    !.currentY = @ + maxHeight,
                    !.pendingInlineElements = <<>>,
                    !.inlineXOffset = 0,
                    !.inlineHeight = 0,
                    !.flush = [n |-> Len(pending), x |-> pending[1].x,
                               y |-> m.currentY, h |-> maxHeight,
                               page |-> m.pages,
                               widest |-> MaxSeq([i \in 1..Len(pending) |->
                                            getTextWidth(pending[i].text)]),
                               aligns |-> [i \in 1..Len(pending) |->
                                            pending[i].style.textAlign],
                               after |-> m.currentY + maxHeight,
                               width |-> m.inlineXOffset,
                               fontSizes |-> [i \in 1..Len(pending) |->
                                               FontSizeOf(pending[i].style,
                                                          pending[i].tagName)]]]

flushInlineElements(m) ==
  LET pending == m.pendingInlineElements
      maxHeight == PendingMaxHeight(pending)
      draws == Flatten([i \in 1..Len(pending) |->
                 renderTextNode(pending[i].text, pending[i].x,
                                m.currentY + (maxHeight - RunHeight(pending[i])),
                                pending[i].style, ContentWidth,
                                pending[i].tagName, i, m.pages)])
  IN IF pending = <<>> THEN m
     ELSE [m EXCEPT !.out = @ \o draws,
                    !.currentY = @ + maxHeight,
                    !.pendingInlineElements = <<>>,
                    !.inlineXOffset = 0,
                    !.inlineHeight = 0,
                    !.flush = [n |-> Len(pending), x |-> pending[1].x,
                               y |-> m.currentY, h |-> maxHeight,
                               page |-> m.pages,
                               widest |-> MaxSeq([i \in 1..Len(pending) |->
                                            getTextWidth(pending[i].text)]),
                               aligns |-> [i \in 1..Len(pending) |->
                                            pending[i].style.textAlign],
                               after |-> m.currentY + maxHeight,
                               width |-> m.inlineXOffset,
                               fontSizes |-> [i \in 1..Len(pending) |->
                                               FontSizeOf(pending[i].style,
                                                          pending[i].tagName)]]]

\* ------------------------------------------------------------------ inputs
\* computed styles of the elements of the documents explored
MkStyle(display, fontSize, textAlign, mt, mb, ml, pad, bord, bg) ==
  [display |-> display, visibility |-> "visible", fontSize |-> fontSize,
   lineHeight |-> Blank, textAlign |-> textAlign, backgroundColor |-> bg,
   marginTop |-> mt, marginRight |-> Blank, marginBottom |-> mb,
   marginLeft |-> ml,
   paddingTop |-> pad, paddingRight |-> pad, paddingBottom |-> pad,
   paddingLeft |-> pad,
   borderTopWidth |-> bord, borderRightWidth |-> bord,
   borderBottomWidth |-> bord, borderLeftWidth |-> bord]

BlockElements ==
  { [tagName |-> "P",
     style |-> MkStyle("block", Blank, "left", Blank, Blank, Blank, Blank,
                       Blank, FALSE)],
    [tagName |-> "H1",
     style |-> MkStyle("block", Blank, "left", Px(10), Px(10), Blank, Blank,
                       Blank, FALSE)],
    [tagName |-> "DIV",
     style |-> MkStyle("block", Px(10), "left", Blank, Px(6), Px(4), Px(4),
                       Px(2), TRUE)],
    [tagName |-> "DIV",
     style |-> MkStyle("block", Px(10), "left", Px(-10), Blank, Blank, Blank,
                       Blank, FALSE)] }

InlineElements ==
  { [tagName |-> "B",
     style |-> MkStyle("inline", Blank, "left", Blank, Blank, Blank, Blank,
                       Blank, FALSE)],
    [tagName |-> "SPAN",
     style |-> MkStyle("inline", Px(20), "left", Blank, Blank, Blank, Blank,
                       Blank, FALSE)],
    [tagName |-> "I",
     style |-> MkStyle("inline", Blank, "right", Blank, Blank, Blank, Blank,
                       Blank, FALSE)] }

\* elements that are not shown: display none, and a block of hidden visibility
HiddenElements ==
  { [tagName |-> "DIV",
     style |-> MkStyle("none", Blank, "left", Blank, Blank, Blank, Blank,
                       Blank, FALSE)],
    [tagName |-> "P",
     style |-> [MkStyle("block", Blank, "left", Px(10), Blank, Blank, Blank,
                        Blank, TRUE) EXCEPT !.visibility = "hidden"]] }

MkImg(complete, naturalWidth, naturalHeight, width, height, decodable) ==
  [complete |-> complete, naturalWidth |-> naturalWidth,
   naturalHeight |-> naturalHeight, width |-> width, height |-> height,
   decodable |-> decodable]

\* an image that is not loaded, and a loaded one wider than the content area
Images ==
  { MkImg(FALSE, 0, 0, Blank, Blank, TRUE),
    MkImg(TRUE, 40, 30, Blank, Blank, TRUE) }

Texts == { <<4>>, <<9, 9>>, <<9, 9, 9>>, <<25>> }

\* ------------------------------------------------------------------- state
VARIABLES
  currentX, currentY, inlineXOffset, inlineHeight, pendingInlineElements,
  pages,       \* number of pages added by pdf.addPage()
  stack,       \* activations of processNode inside a block's child loop
  pc,          \* "start", "run", "flush" (before the final flush), "done"
  nodes,       \* DOM nodes met so far
  out,         \* drawing instructions emitted by the last step
  prevInstr,   \* the last instruction emitted before the last step
  flushed,     \* the line flushed by the last step (n = 0: none)
  pageBreak,   \* the page break of the last step (hit = FALSE: none)
  painted,     \* the block painted by the last step (hit = FALSE: none)
  visited,     \* what the last step met, when not a text or a shown block
  styleWritten, \* a computed style has been assigned to since the start
  call         \* the last call of a helper made on its own

vars == <<currentX, currentY, inlineXOffset, inlineHeight,
          pendingInlineElements, pages, stack, pc, nodes, out, prevInstr,
          flushed, pageBreak, painted, visited, styleWritten, call>>

engineVars == <<currentX, currentY, inlineXOffset, inlineHeight,
                pendingInlineElements, pages, stack, pc, nodes, out,
                prevInstr, flushed, pageBreak, painted, visited,
                styleWritten>>

NoInstr == [kind |-> "none", page |-> -1, run |-> 0, x |-> 0, y |-> 0,
            w |-> 0, h |-> 0]

NoBreak == [hit |-> FALSE, pending |-> 0]

NoPaint == [hit |-> FALSE, totalHeight |-> 0, edges |-> 0, children |-> 0,
            pendingHeight |-> 0, page |-> 0, enterPage |-> 0,
            tagName |-> "", top |-> 0, bottom |-> 0,
            margin |-> [top |-> 0, right |-> 0, bottom |-> 0, left |-> 0]]

NoVisit == [kind |-> "none"]

NoCall == [op |-> "none"]

\* the closure state at the start of a step
Closure ==
  [currentX |-> currentX, currentY |-> currentY,
   inlineXOffset |-> inlineXOffset, inlineHeight |-> inlineHeight,
   pendingInlineElements |-> pendingInlineElements, pages |-> pages,
   pageHeight |-> PageHeight, pagePadding |-> PagePadding,
   out |-> <<>>, flush |-> NoFlush, ret |-> FALSE, breakPending |-> -1]

\* the closure state and the records of the step; the height of a flushed
\* line is counted for the block whose child loop is running
Commit(m, newStack) ==
  /\ currentX' = m.currentX
  /\ currentY' = m.currentY
  /\ inlineXOffset' = m.inlineXOffset
  /\ inlineHeight' = m.inlineHeight
  /\ pendingInlineElements' = m.pendingInlineElements
  /\ pages' = m.pages
  /\ out' = m.out
  /\ prevInstr' = IF out # <<>> THEN out[Len(out)] ELSE prevInstr
  /\ flushed' = m.flush
  /\ pageBreak' = IF m.breakPending >= 0
                  THEN [hit |-> TRUE, pending |-> m.breakPending]
                  ELSE NoBreak
  /\ stack' = newStack

Init ==
  /\ currentX = PagePadding
  /\ currentY = PagePadding
  /\ inlineXOffset = 0
  /\ inlineHeight = 0
  /\ pendingInlineElements = <<>>
  /\ pages = 0
  /\ stack = <<>>
  /\ pc = "start"
  /\ nodes = 0
  /\ out = <<>>
  /\ prevInstr = NoInstr
  /\ flushed = NoFlush
  /\ pageBreak = NoBreak
  /\ painted = NoPaint
  /\ visited = NoVisit
  /\ styleWritten = FALSE
  /\ call = NoCall

\* ------------------------------------------------------------- processNode
\* lines 928-932: an element without a font size gets its tag's default
DefaultFontSize(style, tagName) ==
  IF style.fontSize.t = "nan"
  THEN [style EXCEPT !.fontSize =
          Px(IF tagNameToFontSize(tagName) # 0 THEN tagNameToFontSize(tagName)
             ELSE tagNameToFontSize("P"))]
  ELSE style

AddChildren(stk, h) ==
  IF stk = <<>> THEN stk ELSE [stk EXCEPT ![Len(stk)].children = @ + h]

PendingRun(text, x, style, tagName) ==
  [type |-> "text", text |-> text, x |-> x, style |-> style,
   tagName |-> tagName]

\* text node branch, lines 867-917, with the page check made before the flush
processTextNodeCheckFirst(m, text, parentStyle, parentTagName) ==
  LET td == getTextDimensions(text, parentStyle, parentTagName)
  IN IF /\ parentStyle.display # "block"
        /\ parentStyle.display # "inline-block"
        /\ m.inlineXOffset + td.width <= ContentWidth
     THEN [m EXCEPT
             !.pendingInlineElements =
                Append(@, PendingRun(text, m.currentX + m.inlineXOffset,
                                     parentStyle, parentTagName)),
             !.inlineXOffset = @ + td.width,
             !.inlineHeight = Max(@, td.height)]
     ELSE LET m1 == checkForNewPage(m, td.height)
              m2 == flushInlineElements(m1)
          IN [m2 EXCEPT
                !.pendingInlineElements =
                   Append(@, PendingRun(text, m2.currentX, parentStyle,
                                        parentTagName)),
                !.inlineXOffset = td.width,
                !.inlineHeight = td.height]

\* text node branch, lines 867-917
processTextNode(m, text, parentStyle, parentTagName) ==
  LET td == getTextDimensions(text, parentStyle, parentTagName)
  IN IF /\ parentStyle.display # "block"
        /\ parentStyle.display # "inline-block"
        /\ m.inlineXOffset + td.width <= ContentWidth
     THEN [m EXCEPT
             !.pendingInlineElements =
                Append(@, PendingRun(text, m.currentX + m.inlineXOffset,
                                     parentStyle, parentTagName)),
             !.inlineXOffset = @ + td.width,
             !.inlineHeight = Max(@, td.height)]
     ELSE LET m1 == flushInlineElements(m)
              m2 == checkForNewPage(m1, td.height)
          IN [m2 EXCEPT
                !.pendingInlineElements =
                   Append(@, PendingRun(text, m2.currentX, parentStyle,
                                        parentTagName)),
                !.inlineXOffset = td.width,
                !.inlineHeight = td.height]

\* a text node, child of the running block or of an inline element in it
ProcessTextNode ==
  /\ pc = "run"
  /\ nodes < MaxNodes
  /\ \E text \in Texts :
       \E parent \in {[tagName |-> stack[Len(stack)].tagName,
                       style |-> stack[Len(stack)].style,
                       written |-> FALSE]}
                     \cup {[tagName |-> e.tagName,
                            style |-> DefaultFontSize(e.style, e.tagName),
                            written |->
                              DefaultFontSize(e.style, e.tagName) # e.style] :
                           e \in InlineElements} :
         LET m == processTextNode(Closure, text, parent.style, parent.tagName)
         IN /\ Commit(m, AddChildren(stack, m.flush.h))
            /\ styleWritten' = (styleWritten \/ parent.written)
  /\ nodes' = nodes + 1
  /\ painted' = NoPaint
  /\ visited' = NoVisit
  /\ UNCHANGED <<pc, call>>

\* block branch up to the child loop, lines 938-986
enterBlock(m, style, tagName, dimensions) ==
  LET m1 == flushInlineElements(m)
      m2 == [m1 EXCEPT !.currentY = @ + dimensions.margin.top]
      estimatedHeight ==
        dimensions.padding.top + dimensions.padding.bottom
        + (IF tagName = "IMG" THEN EstimatedImgHeight
           ELSE IF NumOrZero(style.lineHeight) # 0
                THEN NumOrZero(style.lineHeight) ELSE EstimatedLineHeight)
      m3 == checkForNewPage(m2, estimatedHeight)
      elementX == m3.currentX + dimensions.margin.left
      contentX == elementX + dimensions.padding.left + dimensions.border.left
      elementY == m3.currentY
      contentY == elementY + dimensions.padding.top + dimensions.border.top
  IN [m |-> [m3 EXCEPT !.currentX = contentX, !.currentY = contentY],
      frame |-> [tagName |-> tagName, style |-> style,
                 dimensions |-> dimensions,
                 elementX |-> elementX, elementY |-> elementY,
                 elementWidth |-> dimensions.innerWidth,
                 contentX |-> contentX, contentY |-> contentY,
                 children |-> 0, enterPage |-> m3.pages, prev |-> NoPaint]]

\* lines 923-926, first with the test of the display alone
IsInvisibleDisplayOnly(style) == style.display = "none"

IsInvisible(style) == style.display = "none" \/ style.visibility = "hidden"

\* element node of block display, lines 919-986: skipped when invisible,
\* else entered up to its child loop
processElement(m, computed, tagName) ==
  IF IsInvisible(computed)
  THEN [skip |-> TRUE, m |-> m, frame |-> <<>>, written |-> FALSE]
  ELSE LET style == DefaultFontSize(computed, tagName)
           dimensions == getElementDimensions(style, ContentWidth)
           r == enterBlock(m, style, tagName, dimensions)
       IN [skip |-> FALSE, m |-> r.m, frame |-> r.frame,
           written |-> style # computed]

\* an element of block display: the body, or a child of the running block;
\* prev is the block painted by the step before, its previous sibling
EnterBlock ==
  /\ \/ pc = "start" /\ pc' = "run"
     \/ pc = "run" /\ pc' = pc
  /\ nodes < MaxNodes
  /\ Len(stack) < MaxDepth
  /\ \E e \in BlockElements :
       \E r \in {processElement(Closure, e.style, e.tagName)} :
          /\ ~r.skip
          /\ Commit(r.m, Append(AddChildren(stack, r.m.flush.h),
                                [r.frame EXCEPT !.prev = painted]))
          /\ styleWritten' = (styleWritten \/ r.written)
  /\ nodes' = nodes + 1
  /\ painted' = NoPaint
  /\ visited' = NoVisit
  /\ UNCHANGED call

\* an element that is not shown, with whatever children: the body, or a
\* child of the running block
SkipInvisible ==
  /\ \/ pc = "start" /\ pc' = "flush"
     \/ pc = "run" /\ pc' = pc
  /\ nodes < MaxNodes
  /\ \E e \in HiddenElements :
       \E r \in {processElement(Closure, e.style, e.tagName)} :
          /\ Commit(r.m, IF r.skip THEN stack
                         ELSE Append(AddChildren(stack, r.m.flush.h), r.frame))
          /\ styleWritten' = (styleWritten \/ r.written)
  /\ nodes' = nodes + 1
  /\ painted' = NoPaint
  /\ visited' = [kind |-> "hidden"]
  /\ UNCHANGED call

\* block branch after the child loop, lines 993-1016; first a variant that
\* leaves the painted height out of the new cursor y
exitBlockNoHeight(m, f) ==
  LET d == f.dimensions
      contentHeight == m.currentY - f.contentY
      totalHeight == contentHeight + d.padding.top + d.padding.bottom
                     + d.border.top + d.border.bottom
  IN [m |-> [m EXCEPT
               !.out = @ \o renderElementBackground(f.elementX, f.elementY,
                              f.elementWidth, totalHeight, f.style, d,
                              m.pages),
               !.currentX = m.pagePadding,
               !.currentY = f.elementY + d.margin.bottom],
      totalHeight |-> totalHeight]

exitBlock(m, f) ==
  LET d == f.dimensions
      contentHeight == m.currentY - f.contentY
      totalHeight == contentHeight + d.padding.top + d.padding.bottom
                     + d.border.top + d.border.bottom
  IN [m |-> [m EXCEPT
               !.out = @ \o renderElementBackground(f.elementX, f.elementY,
                              f.elementWidth, totalHeight, f.style, d,
                              m.pages),
               !.currentX = m.pagePadding,
               !.currentY = f.elementY + totalHeight + d.margin.bottom],
      totalHeight |-> totalHeight]

\* the child loop of the running block ends
ExitBlock ==
  /\ pc = "run"
  /\ stack # <<>>
  /\ LET f == stack[Len(stack)]
         d == f.dimensions
         r == exitBlock(Closure, f)
         rest == SubSeq(stack, 1, Len(stack) - 1)
     IN /\ Commit(r.m, AddChildren(rest, r.totalHeight + d.margin.top
                                         + d.margin.bottom))
        /\ painted' = [hit |-> TRUE, totalHeight |-> r.totalHeight,
                       edges |-> d.padding.top + d.padding.bottom
                                 + d.border.top + d.border.bottom,
                       children |-> f.children,
                       pendingHeight |-> PendingMaxHeight(pendingInlineElements),
                       page |-> pages, enterPage |-> f.enterPage,
                       tagName |-> f.tagName, top |-> f.elementY,
                       bottom |-> f.elementY + r.totalHeight,
                       margin |-> d.margin]
        /\ pc' = IF rest = <<>> THEN "flush" ELSE "run"
  /\ visited' = NoVisit
  /\ UNCHANGED <<nodes, styleWritten, call>>

\* IMG of inline display, lines 1019-1025
processImg(m) ==
  LET m1 == flushInlineElements(m)
  IN [m1 EXCEPT !.currentY = @ + ImgPlaceholder]

\* an IMG element of inline display, child of the running block; the
\* cursor y it is met at is the one the flush leaves
ProcessImg ==
  /\ pc = "run"
  /\ nodes < MaxNodes
  /\ LET m == processImg(Closure)
     IN Commit(m, AddChildren(stack, m.flush.h + ImgPlaceholder))
  /\ nodes' = nodes + 1
  /\ painted' = NoPaint
  /\ \E img \in Images :
       visited' = [kind |-> "img", img |-> img,
                   y |-> flushInlineElements(Closure).currentY]
  /\ UNCHANGED styleWritten
  /\ UNCHANGED <<pc, call>>

\* lines 1038-1039
FinalFlush ==
  /\ pc = "flush"
  /\ Commit(flushInlineElements(Closure), stack)
  /\ pc' = "done"
  /\ painted' = NoPaint
  /\ visited' = NoVisit
  /\ UNCHANGED <<nodes, styleWritten, call>>

Next ==
  \/ ProcessTextNode
  \/ EnterBlock
  \/ SkipInvisible
  \/ ExitBlock
  \/ ProcessImg
  \/ FinalFlush

Spec == Init /\ [][Next]_vars

\* ---------------------------------------------------------------------------
\* The helpers called on their own: checkForNewPage on any cursor, the word
\* wrap of renderTextNode on any words, the box model resolver and the two
\* parseSpacing on any value.
\* ---------------------------------------------------------------------------

\* JavaScript values: a number n, a string of characters s, undefined, an
\* array of items a, an object whose six spacing keys are the items a
Num(n) == [t |-> "num", n |-> n, s |-> <<>>, a |-> <<>>]

Str(s) == [t |-> "str", n |-> 0, s |-> s, a |-> <<>>]

Undefined == [t |-> "undef", n |-> 0, s |-> <<>>, a |-> <<>>]

Arr(a) == [t |-> "arr", n |-> 0, s |-> <<>>, a |-> a]

Obj(vertical, horizontal, top, right, bottom, left) ==
  [t |-> "obj", n |-> 0, s |-> <<>>,
   a |-> <<vertical, horizontal, top, right, bottom, left>>]

Edges(top, right, bottom, left) ==
  [t |-> "ok", top |-> top, right |-> right, bottom |-> bottom, left |-> left]

Throws == [t |-> "throw", top |-> Undefined, right |-> Undefined,
           bottom |-> Undefined, left |-> Undefined]

\* String.prototype.split(/\s+/): cur is the item being read, acc the items
\* closed so far; a run of spaces closes one item
RECURSIVE SplitLoop(_, _, _, _)
SplitLoop(s, i, cur, acc) ==
  IF i > Len(s) THEN Append(acc, cur)
  ELSE IF s[i] = " "
       THEN IF i > 1 /\ s[i - 1] = " "
            THEN SplitLoop(s, i + 1, cur, acc)
            ELSE SplitLoop(s, i + 1, <<>>, Append(acc, cur))
       ELSE SplitLoop(s, i + 1, Append(cur, s[i]), acc)

Split(s) == SplitLoop(s, 1, <<>>, <<>>)

\* common.js, 30-68
parseSpacing(value) ==
  IF value.t # "str" THEN Throws
  ELSE LET items == Split(value.s)
       IN IF Len(items) >= 4
          THEN Edges(Str(items[1]), Str(items[2]), Str(items[3]), Str(items[4]))
          ELSE IF Len(items) = 3
          THEN Edges(Str(items[1]), Str(items[2]), Str(items[3]), Str(items[2]))
          ELSE IF Len(items) = 2
          THEN Edges(Str(items[1]), Str(items[2]), Str(items[1]), Str(items[2]))
          ELSE IF Len(items) = 1
          THEN Edges(Str(items[1]), Str(items[1]), Str(items[1]), Str(items[1]))
          ELSE Edges(Num(0), Num(0), Num(0), Num(0))

Falsy(v) == v.t = "undef" \/ (v.t = "num" /\ v.n = 0) \/ (v.t = "str" /\ v.s = <<>>)

\* a ?? b
Coalesce(a, b) == IF a.t = "undef" THEN b ELSE a

\* part_000, 39-95
parseSpacingTs(value0, defaultValue) ==
  LET value1 == IF Falsy(value0) THEN defaultValue ELSE value0
      isArr == value1.t = "arr"
      a == value1.a
      value2 == IF ~isArr THEN value1
                ELSE IF Len(a) = 1 THEN a[1] ELSE defaultValue
      value3 == IF value2.t # "num" THEN defaultValue ELSE value2
  IN IF isArr /\ Len(a) >= 4 THEN Edges(a[1], a[2], a[3], a[4])
     ELSE IF isArr /\ Len(a) = 3 THEN Edges(a[1], a[2], a[3], a[2])
     ELSE IF isArr /\ Len(a) = 2 THEN Edges(a[1], a[2], a[1], a[2])
     ELSE IF value2.t = "obj"
     THEN LET o == value2.a
              top == IF o[1].t = "num" THEN o[1] ELSE o[3]
              bottom == IF o[1].t = "num" THEN o[1] ELSE o[5]
              right == IF o[2].t = "num" THEN o[2] ELSE o[4]
              left == IF o[2].t = "num" THEN o[2] ELSE o[6]
          IN Edges(Coalesce(top, defaultValue), Coalesce(right, defaultValue),
                   Coalesce(bottom, defaultValue), Coalesce(left, defaultValue))
     ELSE Edges(value3, value3, value3, value3)

\* NaN, as parseInt gives when no digit can be read
NaN == [t |-> "nan", n |-> 0, s |-> <<>>, a |-> <<>>]

\* a CSS colour string by its form: "empty" (no value), "name" (a keyword),
\* "hex" (# and the characters digits), "rgb" (rgb(r, g, b) or, with an
\* alpha, rgba(r, g, b, a)); alpha is in tenths, -1 when there is none;
\* spaced tells that the separators are ", " as in a computed style
Colour(form, name, digits, r, g, b, alpha, spaced) ==
  [form |-> form, name |-> name, digits |-> digits, r |-> r, g |-> g,
   b |-> b, alpha |-> alpha, spaced |-> spaced]

HexValue(c) ==
  CASE c = "0" -> 0
    [] c = "8" -> 8
    [] c = "f" -> 15
    [] OTHER -> -1

\* parseInt(str, 16): the digits read up to the first character that is
\* not one, NaN when the first character is not a digit
RECURSIVE ParseHexLoop(_, _, _)
ParseHexLoop(str, i, acc) ==
  IF i > Len(str) \/ HexValue(str[i]) < 0 THEN acc
  ELSE ParseHexLoop(str, i + 1, acc * 16 + HexValue(str[i]))

ParseIntHex(str) ==
  IF str = <<>> \/ HexValue(str[1]) < 0 THEN NaN
  ELSE Num(ParseHexLoop(str, 1, 0))

\* String.prototype.substr(start, length), start counted from 0
Substr(str, start, length) ==
  SubSeq(str, start + 1, IF start + length <= Len(str) THEN start + length
                         ELSE Len(str))

namedColors(name) ==
  CASE name = "black" -> <<Num(0), Num(0), Num(0)>>
    [] name = "white" -> <<Num(255), Num(255), Num(255)>>
    [] name = "red" -> <<Num(255), Num(0), Num(0)>>
    [] name = "green" -> <<Num(0), Num(128), Num(0)>>
    [] name = "blue" -> <<Num(0), Num(0), Num(255)>>
    [] name = "yellow" -> <<Num(255), Num(255), Num(0)>>
    [] name = "cyan" -> <<Num(0), Num(255), Num(255)>>
    [] name = "magenta" -> <<Num(255), Num(0), Num(255)>>
    [] name = "gray" -> <<Num(128), Num(128), Num(128)>>
    [] name = "purple" -> <<Num(128), Num(0), Num(128)>>
    [] name = "orange" -> <<Num(255), Num(165), Num(0)>>
    [] OTHER -> <<>>

\* Math.round(c * a + 255 * (1 - a)) for a = alpha / 10
Blend(c, alpha) == (c * alpha + 255 * (10 - alpha) + 5) \div 10

\* lines 358-415; the regular expression of line 365 reads unsigned channels
parseColor(color) ==
  IF \/ color.form = "empty"
     \/ color.form = "name" /\ color.name = "transparent"
     \/ /\ color.form = "rgb" /\ color.spaced
        /\ color.r = 0 /\ color.g = 0 /\ color.b = 0 /\ color.alpha = 0
  THEN <<Num(0), Num(0), Num(0)>>
  ELSE IF color.form = "rgb" /\ color.r >= 0 /\ color.g >= 0 /\ color.b >= 0
  THEN LET a == IF color.alpha >= 0 THEN color.alpha ELSE 10
       IN IF a = 0 THEN <<Num(255), Num(255), Num(255)>>
          ELSE IF a < 10
          THEN <<Num(Blend(color.r, a)), Num(Blend(color.g, a)),
                 Num(Blend(color.b, a))>>
          ELSE <<Num(color.r), Num(color.g), Num(color.b)>>
  ELSE IF color.form = "hex"
  THEN <<ParseIntHex(Substr(color.digits, 0, 2)),
         ParseIntHex(Substr(color.digits, 2, 2)),
         ParseIntHex(Substr(color.digits, 4, 2))>>
  ELSE IF color.form = "name" /\ namedColors(color.name) # <<>>
  THEN namedColors(color.name)
  ELSE <<Num(0), Num(0), Num(0)>>

\* inputs of the calls
HexChars == {"0", "8", "f", "g"}

Channels == {-1, 0, 128, 255, 300}

Alphas == {-1, 0, 5, 10, 15}

ColourNames == {"transparent", "black", "white", "green", "orange", "teal"}

Colours ==
  {Colour("empty", "", <<>>, 0, 0, 0, -1, FALSE)}
  \cup {Colour("name", name, <<>>, 0, 0, 0, -1, FALSE) : name \in ColourNames}
  \cup {Colour("hex", "", digits, 0, 0, 0, -1, FALSE) :
          digits \in SeqsUpTo(HexChars, MaxHexLen)}
  \cup {Colour("rgb", "", <<>>, r, g, b, alpha, spaced) :
          r \in Channels, g \in {0, 300}, b \in {0, 128}, alpha \in Alphas,
          spaced \in BOOLEAN}

Chars == {"1", "x", " "}

SpacingStrings == {Str(s) : s \in SeqsUpTo(Chars, MaxStrLen)}

SpacingNumbers == {Num(0), Num(3), Num(-3)}

SpacingObjects ==
  {Obj(v, h, t, Undefined, Undefined, l) :
     v \in {Undefined, Num(2)}, h \in {Undefined, Num(4)},
     t \in {Undefined, Num(1)}, l \in {Undefined, Num(7)}}

SpacingArrays ==
  {Arr(a) : a \in SeqsUpTo({Num(1), Num(6)}, MaxWords + 1)}

TsValues ==
  {Undefined, Str(<<>>), Str(<<"1">>)} \cup SpacingNumbers \cup SpacingObjects
  \cup SpacingArrays

CssValues == {Blank, Px(0), Px(5), Px(-5)}

WordWidths == {4, 9, 25, 40}

CursorYs == {5 * k : k \in 0..22}

NeededHeights == {0, 10, 12, 20, 24}

PageHeights == {PageHeight, 120}

CallCheckForNewPage ==
  /\ call.op = "none"
  /\ \E y \in CursorYs, neededHeight \in NeededHeights, ph \in PageHeights,
        p \in 0..1 :
       LET m == [Closure EXCEPT !.currentY = y, !.pages = p,
                                !.pageHeight = ph]
       IN call' = [op |-> "checkForNewPage", m |-> m,
                   neededHeight |-> neededHeight,
                   res |-> checkForNewPage(m, neededHeight)]
  /\ UNCHANGED engineVars

CallRenderTextNode ==
  /\ call.op = "none"
  /\ \E words \in SeqsUpTo(WordWidths, MaxWords) \ {<<>>},
        maxWidth \in {ContentWidth, 100},
        textAlign \in {"left", "center", "right"} :
       call' = [op |-> "renderTextNode", words |-> words,
                maxWidth |-> maxWidth, lines |-> WrapLines(words, maxWidth),
                textAlign |-> textAlign,
                res |-> renderTextNode(words, PagePadding, PagePadding,
                          MkStyle("block", Blank, textAlign, Blank, Blank,
                                  Blank, Blank, Blank, FALSE),
                          maxWidth, "P", 1, 0)]
  /\ UNCHANGED engineVars

CallGetElementDimensions ==
  /\ call.op = "none"
  /\ \E display \in {"block", "inline"}, mt \in CssValues, mb \in CssValues,
        ml \in CssValues, pad \in CssValues, bord \in CssValues :
       LET style == MkStyle(display, Blank, "left", mt, mb, ml, pad, bord,
                            FALSE)
       IN call' = [op |-> "getElementDimensions", style |-> style,
                   res |-> getElementDimensions(style, ContentWidth)]
  /\ UNCHANGED engineVars

ImageInputs ==
  { MkImg(complete, naturalWidth, 30, width, height, decodable) :
      complete \in BOOLEAN, naturalWidth \in {0, 10, 40},
      width \in {Blank, Px(10), Px(80)}, height \in {Blank, Px(60)},
      decodable \in BOOLEAN }

CallHandleImageElement ==
  /\ call.op = "none"
  /\ \E img \in ImageInputs, y \in {PagePadding, 45} :
       call' = [op |-> "handleImageElement", img |-> img, y |-> y,
                res |-> handleImageElement(img, PagePadding, y, ContentWidth,
                                           0)]
  /\ UNCHANGED engineVars

\* insertHtmlToPdf, lines 771-799 and 1035-1039, on a page of the given
\* height and a document whose body holds one text: the body is entered,
\* its text met, the body painted, the pending runs flushed; no statement
\* of it throws, whatever the page geometry
CallInsertHtmlToPdf ==
  /\ call.op = "none"
  /\ \E pageHeight \in {PageHeight, 2 * PagePadding, PagePadding + 10},
        body \in BlockElements, text \in Texts :
       \E r \in {processElement([Closure EXCEPT !.pageHeight = pageHeight],
                                 body.style, body.tagName)} :
         \E m1 \in {processTextNode(r.m, text, r.frame.style,
                                     r.frame.tagName)} :
           \E m2 \in {exitBlock(m1, r.frame).m} :
             call' = [op |-> "insertHtmlToPdf", pageHeight |-> pageHeight,
                      res |-> [thrown |-> FALSE,
                               m |-> flushInlineElements(m2)]]
  /\ UNCHANGED engineVars

CallParseColor ==
  /\ call.op = "none"
  /\ \E color \in Colours :
       call' = [op |-> "parseColor", color |-> color,
                res |-> parseColor(color)]
  /\ UNCHANGED engineVars

CallParseSpacing ==
  /\ call.op = "none"
  /\ \E value \in SpacingStrings \cup {Undefined} :
       call' = [op |-> "parseSpacing", value |-> value,
                defaultValue |-> Num(0), res |-> parseSpacing(value)]
  /\ UNCHANGED engineVars

CallParseSpacingTs ==
  /\ call.op = "none"
  /\ \E value \in TsValues, defaultValue \in {Num(0), Num(5)} :
       call' = [op |-> "parseSpacingTs", value |-> value,
                defaultValue |-> defaultValue,
                res |-> parseSpacingTs(value, defaultValue)]
  /\ UNCHANGED engineVars

\* ------------------------------------------------ the walk over the nodes
\* NODE_TYPE of src/constants.mjs
ELEMENT_NODE == 1

TEXT_NODE == 3

COMMENT_NODE == 8

MaxChildren == 2

\* a node of the parsed document; a node is named by its path, the indexes
\* of the children taken from the body down to it
DomNode(nodeType, display, visibility, childNodes) ==
  [nodeType |-> nodeType, display |-> display, visibility |-> visibility,
   childNodes |-> childNodes]

TextLeaf == DomNode(TEXT_NODE, "", "", <<>>)

CommentLeaf == DomNode(COMMENT_NODE, "", "", <<>>)

Element(display, childNodes) ==
  DomNode(ELEMENT_NODE, display, "visible", childNodes)

Subtrees ==
  { TextLeaf,
    CommentLeaf,
    Element("block", <<>>),
    Element("inline", <<TextLeaf>>),
    Element("block", <<TextLeaf>>),
    Element("block", <<Element("inline", <<TextLeaf>>), TextLeaf>>),
    Element("block", <<Element("block", <<TextLeaf>>)>>),
    Element("none", <<TextLeaf>>),
    DomNode(ELEMENT_NODE, "block", "hidden", <<Element("inline", <<TextLeaf>>)>>) }

Documents ==
  { Element("block", kids) : kids \in SeqsUpTo(Subtrees, MaxChildren) }

RECURSIVE NodeAt(_, _)
NodeAt(node, path) ==
  IF path = <<>> THEN node
  ELSE NodeAt(node.childNodes[Head(path)], Tail(path))

ParentNode(path) == SubSeq(path, 1, Len(path) - 1)

\* node.nextSibling is not null; the body has no sibling after it
HasNextSibling(doc, path) ==
  /\ path # <<>>
  /\ path[Len(path)] < Len(NodeAt(doc, ParentNode(path)).childNodes)

NextSibling(path) == [path EXCEPT ![Len(path)] = @ + 1]

\* the nodes processNode handles, in the order of the calls: a node that is
\* neither an element nor a text returns at lines 850-855, a text at 917, an
\* element not shown at 923-926; every other element calls processNode on
\* its childNodes in order, lines 989-991 and 1029-1031
RECURSIVE processNodeVisits(_, _)
processNodeVisits(doc, path) ==
  LET node == NodeAt(doc, path)
  IN IF node.nodeType # ELEMENT_NODE /\ node.nodeType # TEXT_NODE THEN <<>>
     ELSE IF node.nodeType = TEXT_NODE THEN <<path>>
     ELSE IF node.display = "none" \/ node.visibility = "hidden"
          THEN <<path>>
     ELSE <<path>>
          \o Flatten([i \in 1..Len(node.childNodes) |->
                        processNodeVisits(doc, Append(path, i))])

\* constructCell of src/index.mjs reads element, which no scope binds
constructCell == "ReferenceError"

\* the loop of insertHtmlToPdf in src/index.mjs: visits are the values node
\* takes; inlineNodes is an array whenever it is read, so that it is truthy
\* and has no trim
RECURSIVE insertHtmlToPdfMjs(_, _, _)
insertHtmlToPdfMjs(doc, path, visits) ==
  LET node == NodeAt(doc, path)
      seen == Append(visits, path)
      display == IF node.nodeType = ELEMENT_NODE
                 THEN IF node.display = "" THEN "inline" ELSE node.display
                 ELSE "inline"
      inline == display \in {"inline", "inline-block"}
      advance ==
        IF HasNextSibling(doc, path)
        THEN insertHtmlToPdfMjs(doc, NextSibling(path), seen)
        ELSE IF path # <<>> /\ HasNextSibling(doc, ParentNode(path))
             THEN insertHtmlToPdfMjs(doc, NextSibling(ParentNode(path)), seen)
             ELSE [thrown |-> "none", visits |-> seen]
  IN IF node.childNodes # <<>>
     THEN insertHtmlToPdfMjs(doc, Append(path, 1), seen)
     ELSE IF (node.nodeType = ELEMENT_NODE /\ inline)
             \/ node.nodeType = TEXT_NODE
          THEN IF ~HasNextSibling(doc, path)
               THEN [thrown |-> constructCell, visits |-> seen]
               ELSE advance
     ELSE IF node.nodeType = ELEMENT_NODE /\ ~inline
          THEN [thrown |-> "TypeError", visits |-> seen]
     ELSE [thrown |-> "Unknown node type", visits |-> seen]

\* processNode(document.body) of the engine, line 1035
CallProcessNode ==
  /\ call.op = "none"
  /\ \E doc \in Documents :
       call' = [op |-> "processNode", doc |-> doc,
                res |-> [thrown |-> "none",
                         visits |-> processNodeVisits(doc, <<>>)]]
  /\ UNCHANGED engineVars

\* insertHtmlToPdf of src/index.mjs from node = doc.body on
CallInsertHtmlToPdfMjs ==
  /\ call.op = "none"
  /\ \E doc \in Documents :
       call' = [op |-> "insertHtmlToPdfMjs", doc |-> doc,
                res |-> insertHtmlToPdfMjs(doc, <<>>, <<>>)]
  /\ UNCHANGED engineVars

NextFn ==
  \/ CallCheckForNewPage
  \/ CallRenderTextNode
  \/ CallGetElementDimensions
  \/ CallHandleImageElement
  \/ CallParseColor
  \/ CallInsertHtmlToPdf
  \/ CallParseSpacing
  \/ CallParseSpacingTs
  \/ CallProcessNode
  \/ CallInsertHtmlToPdfMjs

SpecFn == Init /\ [][NextFn]_vars

\* ---------------------------------------------------------------------------
\* Properties
\* ---------------------------------------------------------------------------

TextInstrs == {i \in 1..Len(out) : out[i].kind = "text"}

\* C1: checkForNewPage(neededHeight) adds exactly one page, sets the cursor y
\* to the top padding and returns true when y + neededHeight exceeds
\* pageHeight - pagePadding; otherwise it changes neither the page count nor
\* the cursor and returns false.
EnsureSpaceContract ==
  call.op = "checkForNewPage" =>
    LET m == call.m
        res == call.res
    IN IF m.currentY + call.neededHeight > m.pageHeight - m.pagePadding
       THEN /\ res.pages = m.pages + 1
            /\ res.currentY = m.pagePadding
            /\ res.ret = TRUE
            /\ res.currentX = m.currentX
       ELSE /\ res.pages = m.pages
            /\ res.currentY = m.currentY
            /\ res.ret = FALSE
            /\ res.currentX = m.currentX

\* a content limit of 100, the cursor at 95 and 10 needed: a page is added
EnsureSpaceExample ==
  /\ call.op = "checkForNewPage"
  /\ call.m.pageHeight - call.m.pagePadding = 100
  /\ call.m.currentY = 95
  /\ call.neededHeight = 10
  /\ call.res.ret = TRUE
  /\ call.res.currentY = call.m.pagePadding
  /\ call.res.pages = call.m.pages + 1

\* C2: every flushed line whose height fits on an empty page lies above the
\* bottom limit of the page when it is drawn.
LineDrawnAboveLimit ==
  (flushed.n > 0 /\ flushed.h <= PageLimit - PagePadding)
    => flushed.y + flushed.h <= PageLimit

\* C3: the pending inline buffer is empty whenever a page is added, and all
\* the runs of one flushed line are drawn on the same page.
LineAtomicity ==
  /\ pageBreak.hit => pageBreak.pending = 0
  /\ \A i \in TextInstrs : out[i].page = flushed.page
  /\ \A i \in TextInstrs, j \in TextInstrs : out[i].page = out[j].page

\* a line of two runs is flushed by a step that then adds a page
LineFlushedThenPageAdded ==
  /\ flushed.n >= 2
  /\ pageBreak.hit
  /\ pages = flushed.page + 1

\* C4: the painted height of a block is the height contributed by its
\* children (flushed lines, child blocks, and the lines of its inline
\* children still to be drawn) plus its own padding and border.
PaintedHeightIsChildrenPlusEdges ==
  painted.hit =>
    painted.totalHeight
      = painted.children + painted.pendingHeight + painted.edges

\* C5 as stated: on one page the y of successive instructions, backgrounds
\* and borders included, never decreases.
Emitted == <<prevInstr>> \o out

OutputYNonDecreasing ==
  \A i \in 1..(Len(Emitted) - 1) :
    Emitted[i].page = Emitted[i + 1].page => Emitted[i].y <= Emitted[i + 1].y

\* C5 amended: the lines into which one run is wrapped are drawn on one page,
\* each one line height below the previous one, and no text of a flushed
\* line is drawn above the cursor y of the flush.
RunLinesYIncreasing ==
  /\ \A i \in TextInstrs : out[i].y >= flushed.y
  /\ \A i \in TextInstrs, j \in TextInstrs :
       (j = i + 1 /\ out[i].run = out[j].run)
         => (out[j].y = out[i].y + out[i].h /\ out[j].page = out[i].page)

\* a run wrapped into several lines is flushed
WrappedRunFlushed ==
  /\ flushed.n >= 1
  /\ \E i \in TextInstrs, j \in TextInstrs :
       j = i + 1 /\ out[i].run = out[j].run /\ out[j].y > flushed.y

\* C6: between two page breaks the cursor y never decreases.
CursorYNonDecreasing == [][pages' = pages => currentY' >= currentY]_vars

\* C8: the runs of a flushed line end within the content width measured
\* from the start of the line, unless the line is a single run wider than
\* the content width; every run of the line is drawn.
LineWithinContentWidth ==
  /\ \A r \in 1..flushed.n : \E i \in TextInstrs : out[i].run = r
  /\ ~(flushed.n = 1 /\ flushed.widest > ContentWidth)
       => \A i \in TextInstrs : out[i].x + out[i].w <= flushed.x + ContentWidth

\* C7: the lines of the word wrap are the words in order, no line is empty,
\* a word joins the current line exactly when the line's width plus the
\* width of the word and its trailing space is at most maxWidth, and a word
\* wider than maxWidth is alone on its line.
LineWidth(line) == SumSeq(line) + Len(line) * SpaceWidth

WordWrapGreedy ==
  call.op = "renderTextNode" =>
    LET lines == call.lines
        maxWidth == call.maxWidth
    IN /\ Flatten(lines) = call.words
       /\ \A i \in 1..Len(lines) : lines[i] # <<>>
       /\ \A i \in 1..Len(lines) :
            Len(lines[i]) > 1 => LineWidth(lines[i]) <= maxWidth
       /\ \A i \in 1..(Len(lines) - 1) :
            LineWidth(lines[i]) + lines[i + 1][1] + SpaceWidth > maxWidth
       /\ \A i \in 1..Len(lines) :
            (\E k \in 1..Len(lines[i]) : lines[i][k] > maxWidth)
              => Len(lines[i]) = 1

\* three words of width 40 in a width of 100 give two lines
WordWrapExample ==
  /\ call.op = "renderTextNode"
  /\ call.maxWidth = 100
  /\ call.words = <<40, 40, 40>>
  /\ call.lines = << <<40, 40>>, <<40>> >>

\* C9: parseSpacing maps 1, 2, 3 and 4 or more values, and a
\* vertical/horizontal pair, onto the four sides as the CSS shorthand does,
\* gives the default on all sides for a missing, empty or malformed value,
\* and never raises.
IsNumeric(tok) == tok # <<>> /\ \A i \in 1..Len(tok) : tok[i] = "1"

RECURSIVE TokenValue(_)
TokenValue(tok) ==
  IF tok = <<>> THEN 0
  ELSE 10 * TokenValue(SubSeq(tok, 1, Len(tok) - 1)) + 1

Shorthand(v, dflt) ==
  IF Len(v) >= 4 THEN Edges(v[1], v[2], v[3], v[4])
  ELSE IF Len(v) = 3 THEN Edges(v[1], v[2], v[3], v[2])
  ELSE IF Len(v) = 2 THEN Edges(v[1], v[2], v[1], v[2])
  ELSE IF Len(v) = 1 THEN Edges(v[1], v[1], v[1], v[1])
  ELSE Edges(dflt, dflt, dflt, dflt)

ExpectedSpacing(value, dflt) ==
  CASE value.t = "num" -> Shorthand(<<value>>, dflt)
    [] value.t = "arr" -> Shorthand(value.a, dflt)
    [] value.t = "obj" ->
         LET o == value.a
         IN Edges(Coalesce(Coalesce(o[1], o[3]), dflt),
                  Coalesce(Coalesce(o[2], o[4]), dflt),
                  Coalesce(Coalesce(o[1], o[5]), dflt),
                  Coalesce(Coalesce(o[2], o[6]), dflt))
    [] value.t = "str" ->
         LET items == SelectSeq(Split(value.s), LAMBDA tok : tok # <<>>)
         IN IF \A i \in 1..Len(items) : IsNumeric(items[i])
            THEN Shorthand([i \in 1..Len(items) |-> Num(TokenValue(items[i]))],
                           dflt)
            ELSE Edges(dflt, dflt, dflt, dflt)
    [] OTHER -> Edges(dflt, dflt, dflt, dflt)

ParseSpacingShorthand ==
  /\ call.op = "parseSpacing"
       => call.res = ExpectedSpacing(call.value, call.defaultValue)
  /\ call.op = "parseSpacingTs"
       => call.res = ExpectedSpacing(IF call.value.t = "str" /\ call.value.s # <<>>
                                     THEN Undefined ELSE call.value,
                                     call.defaultValue)

\* C10: every side of the margin, padding and border records of the box
\* model resolver, and every side returned by parseSpacing, is a number >= 0.
Sides == {"top", "right", "bottom", "left"}

BoxEdgesNonNegative ==
  /\ call.op = "getElementDimensions"
       => \A side \in Sides :
            /\ call.res.margin[side] >= 0
            /\ call.res.padding[side] >= 0
            /\ call.res.border[side] >= 0
  /\ (call.op \in {"parseSpacing", "parseSpacingTs"} /\ call.res.t = "ok")
       => \A side \in Sides :
            call.res[side].t = "num" /\ call.res[side].n >= 0

\* C11: a step that meets an element of display none or of hidden
\* visibility emits no instruction, enters no block (so none of the
\* element's descendants is visited: the element alone is counted) and
\* leaves the cursor x and y, the page count and the pending inline runs as
\* they were.
InvisibleSkipped ==
  [][visited'.kind = "hidden" =>
       /\ out' = <<>>
       /\ stack' = stack
       /\ nodes' = nodes + 1
       /\ currentX' = currentX
       /\ currentY' = currentY
       /\ pages' = pages
       /\ pendingInlineElements' = pendingInlineElements
       /\ <<inlineXOffset', inlineHeight'>> = <<inlineXOffset, inlineHeight>>]_vars

\* an invisible element is met while a run is pending inside a block
InvisibleMetWhilePending ==
  /\ visited.kind = "hidden"
  /\ pendingInlineElements # <<>>
  /\ stack # <<>>

\* C12: an image whose natural dimensions are not available adds nothing to
\* the cursor y and draws nothing; any other image is drawn with the width
\* min(width, available width) and the height scaled by the same factor,
\* and the cursor y advances by that height.
ImagesDrawn == {i \in 1..Len(out) : out[i].kind = "image"}

ImageContribution ==
  visited.kind = "img" =>
    LET img == visited.img
        width == IF NumOrZero(img.width) # 0 THEN NumOrZero(img.width)
                 ELSE img.naturalWidth
        height == IF NumOrZero(img.height) # 0 THEN NumOrZero(img.height)
                  ELSE img.naturalHeight
        drawnWidth == IF width > ContentWidth THEN ContentWidth ELSE width
    IN IF ~img.complete \/ img.naturalWidth = 0
       THEN currentY = visited.y /\ ImagesDrawn = {}
       ELSE \E i \in ImagesDrawn :
              /\ out[i].w = drawnWidth
              /\ out[i].h * width = height * drawnWidth
              /\ currentY = visited.y + out[i].h

\* C13: parseColor gives three integers in 0..255; for rgb(a) channels in
\* 0..255 and an alpha a in [0, 1] they are round(c * a + 255 * (1 - a))
\* (the colour itself without alpha or with alpha 1, white with alpha 0);
\* for an unknown name, a hex value that is not six hex digits or a channel
\* out of range they are 0, 0, 0.
InRange(c) == c \in 0..255

Unresolvable(color) ==
  \/ color.form = "name" /\ namedColors(color.name) = <<>>
                         /\ color.name # "transparent"
  \/ color.form = "hex" /\ \/ Len(color.digits) # 6
                           \/ \E i \in 1..Len(color.digits) :
                                HexValue(color.digits[i]) < 0
  \/ color.form = "rgb" /\ ~(InRange(color.r) /\ InRange(color.g)
                              /\ InRange(color.b))

ColourIsOpaqueTriple ==
  call.op = "parseColor" =>
    LET color == call.color
        res == call.res
        a == IF color.alpha < 0 THEN 10 ELSE color.alpha
    IN /\ Len(res) = 3
       /\ \A i \in 1..3 : res[i].t = "num" /\ InRange(res[i].n)
       /\ (color.form = "rgb" /\ ~Unresolvable(color) /\ a \in 0..10)
            => res = <<Num(Blend(color.r, a)), Num(Blend(color.g, a)),
                       Num(Blend(color.b, a))>>
       /\ Unresolvable(color) => res = <<Num(0), Num(0), Num(0)>>

\* C14: insertHtmlToPdf fails, before it draws anything or adds a page,
\* exactly when the page height left between the paddings is <= 0.
UnmeasurableGeometryIsFatal ==
  call.op = "insertHtmlToPdf" =>
    /\ call.res.thrown <=> call.pageHeight - 2 * PagePadding <= 0
    /\ call.res.thrown => (call.res.m.out = <<>> /\ call.res.m.pages = 0)

\* C15: when the traversal is complete no computed style has been assigned
\* to: every style, its font size included, is as it was resolved.
StyleReadOnly == pc = "done" => ~styleWritten

\* C16: a block entered right after its previous sibling was painted, both
\* with margins >= 0 and both on one page, has its top edge at or below the
\* bottom edge (top plus painted height) of that sibling, and strictly
\* below it when the sibling is an H1 and the block a P; an H1 and a P
\* without a font size of their own resolve to the sizes 20 and 10.
NonNegativeMargins(margin) == \A side \in Sides : margin[side] >= 0

SiblingsDoNotOverlap ==
  /\ \A i \in 1..Len(stack) :
       LET second == stack[i]
           first == second.prev
       IN (/\ first.hit
           /\ NonNegativeMargins(first.margin)
           /\ NonNegativeMargins(second.dimensions.margin)
           /\ first.enterPage = first.page
           /\ second.enterPage = first.page)
            => /\ second.elementY >= first.bottom
               /\ (first.tagName = "H1" /\ second.tagName = "P")
                    => second.elementY > first.bottom
  /\ \A e \in BlockElements :
       e.style.fontSize = Blank =>
         /\ e.tagName = "H1"
              => FontSizeOf(DefaultFontSize(e.style, e.tagName), e.tagName) = 20
         /\ e.tagName = "P"
              => FontSizeOf(DefaultFontSize(e.style, e.tagName), e.tagName) = 10

\* a P is entered right after a sibling H1 was painted on the same page
ParagraphAfterHeading ==
  /\ stack # <<>>
  /\ LET second == stack[Len(stack)]
         first == second.prev
     IN /\ first.hit
        /\ first.tagName = "H1"
        /\ second.tagName = "P"
        /\ NonNegativeMargins(first.margin)
        /\ NonNegativeMargins(second.dimensions.margin)
        /\ first.enterPage = first.page
        /\ second.enterPage = first.page
        /\ second.elementY > first.bottom

\* C17: a line of width lineWidth is placed as a whole at x for left, at
\* x + (maxWidth - lineWidth) / 2 for center and at x + (maxWidth -
\* lineWidth) for right, x being the start of the content area and maxWidth
\* its width: every line of a wrapped run, and the runs of a line of
\* several runs of one alignment, which follow each other from that place.
AlignOffset(textAlign, free) ==
  CASE textAlign = "center" -> free \div 2
    [] textAlign = "right" -> free
    [] OTHER -> 0

\* the text instruction of run r of a flushed line of unwrapped runs
InstrOfRun(r) == CHOOSE i \in TextInstrs : out[i].run = r

LineAligned ==
  /\ call.op = "renderTextNode" =>
       \A i \in 1..Len(call.res) :
         call.res[i].x = PagePadding
           + AlignOffset(call.textAlign, call.maxWidth - call.res[i].w)
  /\ flushed.n = 1 =>
       \A i \in TextInstrs :
         out[i].x = flushed.x
           + AlignOffset(flushed.aligns[1], ContentWidth - out[i].w)
  /\ (/\ flushed.n >= 2
      /\ \A r \in 1..flushed.n : flushed.aligns[r] = flushed.aligns[1])
       => LET lineWidth == SumSeq([r \in 1..flushed.n |-> out[InstrOfRun(r)].w])
              start == flushed.x + AlignOffset(flushed.aligns[1],
                                               ContentWidth - lineWidth)
          IN \A r \in 1..flushed.n :
               out[InstrOfRun(r)].x
                 = start + SumSeq([q \in 1..(r - 1) |-> out[InstrOfRun(q)].w])

\* C18: no inline run is pending when a block has measured its content
\* height and been painted (the runs met in it were flushed when its
\* children ended), when a block has been entered, or when the document
\* has ended; so no run is drawn after the block that holds it has exited.
InlineBufferFlushed ==
  /\ [](painted.hit => pendingInlineElements = <<>>)
  /\ [][Len(stack') > Len(stack) => pendingInlineElements' = <<>>]_vars
  /\ [](pc = "done" => pendingInlineElements = <<>>)

\* C19: a flush advances the cursor y by the heights of the text lines it
\* draws: by the sum of the line heights of a run wrapped into k lines, and
\* in every case to the bottom of the lowest line drawn or below it.
CursorBelowFlushedLines ==
  flushed.n > 0 =>
    /\ flushed.n = 1
         => flushed.after - flushed.y
              = SumSeq([i \in 1..Len(out) |->
                         IF out[i].kind = "text" THEN out[i].h ELSE 0])
    /\ \A i \in TextInstrs : out[i].y + out[i].h <= flushed.after

\* C20: the height of a flushed line is the greatest of the heights of its
\* runs, each the font size times 1.2 when the style gives no multiplier;
\* a run is drawn at the cursor y plus the height of the line minus its own
\* height, which is >= 0, and 0 for a tallest run; a flush with no pending
\* run draws nothing and leaves the cursor where it was.
FirstOfRun(r) ==
  CHOOSE i \in TextInstrs :
    out[i].run = r /\ \A j \in TextInstrs : out[j].run = r => i <= j

InlineContentJoined ==
  (flushed.n > 0 /\ Len(pendingInlineElements) = 1)
    => flushed.width + getTextWidth(pendingInlineElements[1].text)
         > ContentWidth

\* C22: when the fill and the border lines of a block are emitted, every
\* instruction of its descendants has been emitted: no run met inside the
\* block is still waiting to be drawn.
BackgroundEmittedLast ==
  (painted.hit /\ \E i \in 1..Len(out) : out[i].kind \in {"rect", "line"})
    => pendingInlineElements = <<>>

\* C23: once a block is laid out the cursor x is the content x of the
\* block's parent (the left page padding for the outermost block) and the
\* cursor y is the block's painted bottom plus its margin-bottom.
ParentContentX ==
  IF stack = <<>> THEN PagePadding ELSE stack[Len(stack)].contentX

CursorRestoredAtExit ==
  painted.hit
    => /\ currentX = ParentContentX
       /\ currentY = painted.bottom + painted.margin.bottom

\* C24: the walk handles every element and every text under the body that is
\* not inside an element that is not shown exactly once, in document order
\* and at any depth, handles no node of another kind, and does not raise.
RECURSIVE PathsOf(_)
PathsOf(node) ==
  {<<>>} \cup UNION { { <<i>> \o q : q \in PathsOf(node.childNodes[i]) } :
                       i \in 1..Len(node.childNodes) }

IsPrefix(p, q) == Len(p) <= Len(q) /\ SubSeq(q, 1, Len(p)) = p

NotShown(node) ==
  /\ node.nodeType = ELEMENT_NODE
  /\ node.display = "none" \/ node.visibility = "hidden"

ToVisit(doc) ==
  { p \in PathsOf(doc) :
      /\ NodeAt(doc, p).nodeType \in {ELEMENT_NODE, TEXT_NODE}
      /\ \A k \in 0..(Len(p) - 1) : ~NotShown(NodeAt(doc, SubSeq(p, 1, k))) }

\* p comes before q in document order
DocumentOrder(p, q) ==
  \/ p # q /\ IsPrefix(p, q)
  \/ \E k \in 1..Len(p) :
       /\ k <= Len(q)
       /\ SubSeq(p, 1, k - 1) = SubSeq(q, 1, k - 1)
       /\ p[k] < q[k]

TraversalComplete ==
  call.op \in {"processNode", "insertHtmlToPdfMjs"}
    => LET visits == call.res.visits
       IN /\ call.res.thrown = "none"
          /\ {visits[i] : i \in 1..Len(visits)} = ToVisit(call.doc)
          /\ \A i, j \in 1..Len(visits) :
               i < j => DocumentOrder(visits[i], visits[j])

\* C25: the height a block is painted with is at least its padding plus its
\* border, and the page on which it is painted is the page on which its top
\* y was fixed, whatever page breaks happened between its children.
PaintedWhereEntered ==
  painted.hit
    => /\ painted.totalHeight >= painted.edges
       /\ painted.page = painted.enterPage

\* C26: a block whose margins, padding and borders are not negative and
\* whose parent's are not negative either is painted inside the content box
\* of its parent, from the parent's content x over at most the parent's
\* content width, and the runs joined on one line inside a block are no
\* wider together than the content width of that block.
NonNegativeBox(d) ==
  /\ NonNegativeMargins(d.margin)
  /\ NonNegativeMargins(d.padding)
  /\ NonNegativeMargins(d.border)

OwnContentWidth(f) ==
  f.elementWidth - f.dimensions.padding.left - f.dimensions.padding.right
                 - f.dimensions.border.left - f.dimensions.border.right

NestedBlockInsideParent ==
  /\ \A i \in 2..Len(stack) :
       LET A == stack[i - 1]
           B == stack[i]
       IN (NonNegativeBox(A.dimensions) /\ NonNegativeBox(B.dimensions))
            => /\ B.elementX >= A.contentX
               /\ B.elementX + B.elementWidth
                    <= A.contentX + OwnContentWidth(A)
  /\ (/\ stack # <<>>
      /\ \A i \in 1..Len(stack) : NonNegativeBox(stack[i].dimensions)
      /\ Len(pendingInlineElements) >= 2)
       => inlineXOffset <= OwnContentWidth(stack[Len(stack)])

====
